---- MODULE Spec2Model ----
(***************************************************************************)
(* Model of shuffle.c: the block-buffered bit source secure_random_bit,    *)
(* the rejection sampler secure_random, and the Fisher-Yates shuffle       *)
(* shuffle_deck driven by main.                                            *)
(*                                                                         *)
(* A uint32_t is a pair <<hi, lo>> of 16-bit limbs (value hi*2^16 + lo),   *)
(* because values up to 2^32-1 are needed and the model checker's          *)
(* integers stop at 2^31-1.  All arithmetic on uint32_t is modulo 2^32.    *)
(***************************************************************************)
EXTENDS Integers, Sequences, FiniteSets

(***************************************************************************)
(* Program constants.                                                      *)
(***************************************************************************)
BUFSZ == 256
MAX_RAND_BITS == 28
WORD_BYTES == 4
WORD_BITS == WORD_BYTES * 8

(***************************************************************************)
(* Bounds of the model.                                                    *)
(***************************************************************************)
\* Largest deck length N explored (the source fixes N = DECK_SIZE = 52).
MaxDeck == 4
\* Largest deck length explored with an ideal sampler.
\* Number of secure_random calls made by the sampler's driver.
MaxCalls == 2
\* Largest command-line repetition count uplim explored.
MaxUplim == 2
\* The ghost counter of bits consumed by one secure_random call saturates here.
NBitsCap == 40
\* Bit prefixes longer than this are not followed by the distribution model.
DistDepth == 10
\* Largest max explored by the distribution model.
DistMax == 16
\* Number of low bits of a source word that take every pattern.
LowBits == 4

(***************************************************************************)
(* uint32_t arithmetic on limb pairs.                                      *)
(***************************************************************************)
B16 == 2^16
B15 == 2^15

\* The uint32_t with value n, for 0 <= n < 2^31.
U32(n) == <<n \div B16, n % B16>>

\* The value of u as an integer, for u < 2^31.
Val(u) == u[1] * B16 + u[2]

ULT(a, b) == a[1] < b[1] \/ (a[1] = b[1] /\ a[2] < b[2])
ULE(a, b) == a[1] < b[1] \/ (a[1] = b[1] /\ a[2] <= b[2])

\* a << 1, truncated to 32 bits.
UShl1(a) == <<(2 * a[1] + (a[2] \div B15)) % B16, (2 * a[2]) % B16>>

\* a >> 1.
UShr1(a) == <<a[1] \div 2, ((a[1] % 2) * B15) + (a[2] \div 2)>>

\* The bitwise or of the 16-bit limbs x and y, bits k down to 0.
RECURSIVE BitOr(_, _, _)
BitOr(x, y, k) ==
  IF k < 0 THEN 0
  ELSE (IF (x \div 2^k) % 2 = 1 \/ (y \div 2^k) % 2 = 1 THEN 2^k ELSE 0) + BitOr(x, y, k - 1)

\* a | b.
UOr(a, b) == <<BitOr(a[1], b[1], 15), BitOr(a[2], b[2], 15)>>

\* a - b modulo 2^32.
USub(a, b) ==
  LET borrow == IF a[2] < b[2] THEN 1 ELSE 0
  IN <<(a[1] - b[1] - borrow + B16) % B16, (a[2] - b[2] + B16) % B16>>

\* Bit k (0 = least significant) of a.
UBit(a, k) == IF k >= 16 THEN (a[1] \div 2^(k - 16)) % 2 ELSE (a[2] \div 2^k) % 2

\* a with bit k set, bit k being clear in a.
USetBit(a, k) == IF k >= 16 THEN <<a[1] + 2^(k - 16), a[2]>> ELSE <<a[1], a[2] + 2^k>>

\* <<a / b, a % b>> (truncating division) for b # 0.  Operands below 2^31 are
\* divided as integers.  A divisor of 2^31 or more goes at most once into a.
\* A dividend a of 2^31 or more is halved first: with a = 2h + a0 and
\* h = q0*b + r0, a = (2*q0)*b + (2*r0 + a0), and 2*r0 + a0 < 2b.
UDivMod(a, b) ==
  IF ULT(a, b) THEN <<<<0, 0>>, a>>
  ELSE IF b[1] >= B15 THEN <<<<0, 1>>, USub(a, b)>>
  ELSE IF a[1] < B15 THEN <<U32(Val(a) \div Val(b)), U32(Val(a) % Val(b))>>
  ELSE LET h == Val(UShr1(a))
           a0 == a[2] % 2
           q0 == h \div Val(b)
           r0 == h % Val(b)
           twice == UShl1(U32(q0))
       IN IF r0 >= Val(b) - r0 - a0
          THEN <<<<twice[1], twice[2] + 1>>, U32(r0 - (Val(b) - r0 - a0))>>
          ELSE <<twice, U32(2 * r0 + a0)>>

UDiv(a, b) == UDivMod(a, b)[1]
UMod(a, b) == UDivMod(a, b)[2]

UZero == <<0, 0>>
UOne == <<0, 1>>
UOnes == <<B16 - 1, B16 - 1>>

TwoPowMaxRandBits == U32(2^MAX_RAND_BITS)

(***************************************************************************)
(* State.                                                                  *)
(***************************************************************************)
VARIABLES
  rand_buf,   \* secure_random_bit: static uint32_t rand_buf[BUFSZ]
  max_winx,   \* secure_random_bit: number of valid words in rand_buf
  winx,       \* secure_random_bit: index of the word being consumed
  bcnt,       \* secure_random_bit: bits already taken from rand_buf[winx]
  max,        \* secure_random: the argument
  r,          \* secure_random: the candidate
  rmax,       \* secure_random: the range ceiling
  defect,     \* secure_random: rmax % max
  ret,        \* secure_random: the value returned
  deck,       \* main: Card deck[DECK_SIZE], indices 0..n-1
  n,          \* the deck length (DECK_SIZE)
  i,          \* shuffle_deck: loop index
  j,          \* shuffle_deck: the index drawn by the last swap
  main_i,     \* main: loop index
  uplim,      \* main: number of shuffles asked for
  pc,         \* position in the program
  exited,     \* "no", or the way the process ended
  blk,        \* ghost: the valid words of the last block, as read
  served,     \* ghost: bits returned since the last refill
  lastbit,    \* ghost: the bit returned by the last secure_random_bit call
  lastread,   \* ghost: what the last secure_random_bit call did with the source
  acc,        \* ghost: the index of the last access rand_buf[winx]
  nbits,      \* ghost: bits consumed by the current secure_random call
  draws,      \* ghost: the indices drawn by the current shuffle_deck call
  paths,      \* distribution model: the bit prefixes still inside the call
  wt,         \* distribution model: weight of each value returned so far
  depth       \* distribution model: length of the prefixes in paths

bufVars == <<rand_buf, max_winx, winx, bcnt>>
bufGhost == <<blk, served, lastbit, lastread, acc>>
srVars == <<max, r, rmax, defect, ret, nbits>>
deckVars == <<deck, n, i, j, main_i, uplim, draws>>
distVars == <<paths, wt, depth>>
vars == <<rand_buf, max_winx, winx, bcnt, max, r, rmax, defect, ret, deck, n, i, j,
          main_i, uplim, pc, exited, blk, served, lastbit, lastread, acc, nbits,
          draws, paths, wt, depth>>

(***************************************************************************)
(* secure_random_bit.                                                      *)
(***************************************************************************)
\* What the source does at one refill: whether open() succeeds, the value rv
\* that read() returns, and the words it delivers: data is a nonempty sequence of
\* words, repeated to fill the block.
DataWord(data, k) == data[(k % Len(data)) + 1]

NoEnv == [open |-> TRUE, rv |-> 0, data |-> <<UZero>>]

\* The word old after nb (1..3) bytes of the word new were stored over its
\* low-address bytes (little-endian).
MergeBytes(old, new, nb) ==
  CASE nb = 1 -> <<old[1], (old[2] - (old[2] % 256)) + (new[2] % 256)>>
    [] nb = 2 -> <<old[1], new[2]>>
    [] OTHER -> <<(old[1] - (old[1] % 256)) + (new[1] % 256), new[2]>>

\* rand_buf is kept as the function from the indices of its nonzero words to
\* those words; every other word of the array is zero (it is static, hence
\* zero-initialised, and a word is zero again once its 32 bits are consumed).
Word(buf, k) == IF k \in DOMAIN buf THEN buf[k] ELSE UZero

\* rand_buf after read(fd, rand_buf, sizeof(rand_buf)) returned rv.
ReadInto(buf, rv, data) ==
  LET new(k) == IF WORD_BYTES * (k + 1) <= rv THEN DataWord(data, k)
                ELSE IF WORD_BYTES * k < rv
                THEN MergeBytes(Word(buf, k), DataWord(data, k), rv - WORD_BYTES * k)
                ELSE Word(buf, k)
      \* the words with a byte among the first rv bytes (rv <= sizeof(rand_buf))
      touched == 0..(((rv + WORD_BYTES - 1) \div WORD_BYTES) - 1)
  IN [k \in {x \in touched \cup DOMAIN buf : new(x) # UZero} |-> new(k)]

\* rand_buf[w] >>= 1;
ShiftWord(buf, w) ==
  LET new(k) == IF k = w THEN UShr1(Word(buf, k)) ELSE Word(buf, k)
  IN [k \in {x \in DOMAIN buf : new(x) # UZero} |-> new(k)]

\* if (winx == max_winx)
NeedRefill(w, mw) == w = mw

\* Mutant: only a read error is fatal.
ShortRead_ErrorOnly(rv) == rv < 0

\* if (rv < (ssize_t)sizeof(rand_buf[0]))
ShortRead(rv) == rv < WORD_BYTES

\* Mutant: a partial last word counts as valid.
ValidWords_RoundUp(rv) == (rv + WORD_BYTES - 1) \div WORD_BYTES

\* max_winx = rv / sizeof(rand_buf[0])
ValidWords(rv) == rv \div WORD_BYTES

\* Mutant: the word is left one bit late.
WordDone_Late(b) == b = WORD_BITS + 1

\* if (bcnt == sizeof(rand_buf[0]) * 8)
WordDone(b) == b = WORD_BITS

\* The whole call, from the static state st under the source behaviour env.
\* exit is "no" when the call returns bit; an access outside rand_buf is
\* undefined behaviour and ends the model with exit "ub".
secure_random_bit(st, env) ==
  LET need == NeedRefill(st.winx, st.max_winx)
      buf1 == IF need /\ env.open THEN ReadInto(st.rand_buf, env.rv, env.data)
              ELSE st.rand_buf
      mw == IF need THEN ValidWords(env.rv) ELSE st.max_winx
      w == IF need THEN 0 ELSE st.winx
      b == IF need THEN 0 ELSE st.bcnt
      how == [refill |-> need,
              open |-> need /\ env.open,
              rv |-> IF need /\ env.open THEN env.rv ELSE 0]
  IN IF need /\ ~env.open
     THEN [exit |-> "open", st |-> st, bit |-> 0, how |-> how, acc |-> -1]
     ELSE IF need /\ ShortRead(env.rv)
     THEN [exit |-> "read", st |-> [st EXCEPT !.rand_buf = buf1], bit |-> 0,
           how |-> how, acc |-> -1]
     ELSE IF w \notin 0..(BUFSZ - 1)
     THEN [exit |-> "ub",
           st |-> [rand_buf |-> buf1, max_winx |-> mw, winx |-> w, bcnt |-> b],
           bit |-> 0, how |-> how, acc |-> w]
     ELSE LET done == WordDone(b + 1)
          IN [exit |-> "no",
              st |-> [rand_buf |-> ShiftWord(buf1, w),
                      max_winx |-> mw,
                      winx |-> IF done THEN w + 1 ELSE w,
                      bcnt |-> IF done THEN 0 ELSE b + 1],
              bit |-> Word(buf1, w)[2] % 2,
              how |-> how,
              acc |-> w]

BufState == [rand_buf |-> rand_buf, max_winx |-> max_winx, winx |-> winx, bcnt |-> bcnt]

\* The source behaviours to try at this call: one dummy when no refill happens.
EnvsFor(E) == IF NeedRefill(winx, max_winx) THEN E ELSE {NoEnv}

\* The effect of one secure_random_bit call, with result res, on the static
\* state and on the ghosts.
BitEffect(res, env) ==
  /\ rand_buf' = res.st.rand_buf
  /\ max_winx' = res.st.max_winx
  /\ winx' = res.st.winx
  /\ bcnt' = res.st.bcnt
  /\ lastread' = res.how
  /\ acc' = res.acc
  /\ lastbit' = IF res.exit = "no" THEN res.bit ELSE lastbit
  /\ blk' = IF res.how.refill /\ res.exit \in {"no", "ub"}
            THEN [k \in 0..(res.st.max_winx - 1) |-> DataWord(env.data, k)]
            ELSE blk
  /\ served' = IF res.exit # "no" THEN served
               ELSE IF res.how.refill THEN 1 ELSE served + 1

(***************************************************************************)
(* secure_random: the frame of one call and its steps.                     *)
(***************************************************************************)
Frame == [max |-> max, r |-> r, rmax |-> rmax, defect |-> defect, ret |-> ret, pc |-> pc]

\* uint32_t r = 0, rmax = 1;
Entry(m) == [max |-> m, r |-> UZero, rmax |-> UOne, defect |-> UZero, ret |-> UZero,
             pc |-> "sr_loop1"]

\* Mutant: the first loop also runs when rmax = max.
Loop1Cond_Inclusive(f) == ULE(f.rmax, f.max)

\* while (rmax < max)
Loop1Cond(f) == ULT(f.rmax, f.max)

\* if (secure_random_bit() == 1) r |= rmax;
PutBit(f, bit) == IF bit = 1 THEN UOr(f.r, f.rmax) ELSE f.r

\* The body of the first loop, with the bit the source returned.
Loop1Iter(f, bit) == [f EXCEPT !.r = PutBit(f, bit), !.rmax = UShl1(f.rmax)]

\* uint32_t defect = rmax % max;
Loop1Exit(f) == [f EXCEPT !.defect = UMod(f.rmax, f.max), !.pc = "sr_loop2"]

\* while (rmax - defect <= r)
Loop2Cond(f) == ULE(USub(f.rmax, f.defect), f.r)

\* if (rmax < (1<<MAX_RAND_BITS))
CanGrow(f) == ULT(f.rmax, TwoPowMaxRandBits)

\* Mutant: defect is not recomputed when rmax is doubled.
Grow_StaleDefect(f, r1) == [f EXCEPT !.r = r1, !.rmax = UShl1(f.rmax)]

\* rmax <<= 1; defect = rmax % max;
Grow(f, r1) == [f EXCEPT !.r = r1, !.rmax = UShl1(f.rmax),
                         !.defect = UMod(UShl1(f.rmax), f.max)]

\* Mutant: at the cap the least significant bit is kept.
DropLsb_NoShift(f, r1) == [f EXCEPT !.r = r1]

\* r >>= 1;
DropLsb(f, r1) == [f EXCEPT !.r = UShr1(r1)]

\* The body of the second loop, with the bit the source returned.
Loop2Iter(f, bit) ==
  IF CanGrow(f) THEN Grow(f, PutBit(f, bit)) ELSE DropLsb(f, PutBit(f, bit))

\* return r / (rmax / max);
Result(f) == UDiv(f.r, UDiv(f.rmax, f.max))

Return(f) == [f EXCEPT !.ret = Result(f), !.pc = "sr_ret"]

\* The frame becomes new.
SetFrame(new) ==
  \E f \in {new} :
    /\ max' = f.max
    /\ r' = f.r
    /\ rmax' = f.rmax
    /\ defect' = f.defect
    /\ ret' = f.ret
    /\ pc' = f.pc

BumpBits == IF nbits < NBitsCap THEN nbits + 1 ELSE nbits

\* secure_random(m) is entered: the max == 0 check and the initialisation.
Call(m) ==
  /\ nbits' = 0
  /\ IF m = UZero
     THEN /\ exited' = "max0"
          /\ UNCHANGED <<max, r, rmax, defect, ret, pc>>
     ELSE /\ SetFrame(Entry(m))
          /\ UNCHANGED exited

\* One iteration of a loop of secure_random: the secure_random_bit call and
\* the rest of the body, of the first loop (first) or of the second.
Iterate(E, first) ==
  \E env \in EnvsFor(E) :
    \E res \in {secure_random_bit(BufState, env)} :
      /\ BitEffect(res, env)
      /\ IF res.exit = "no"
         THEN /\ SetFrame(IF first THEN Loop1Iter(Frame, res.bit)
                                  ELSE Loop2Iter(Frame, res.bit))
              /\ nbits' = BumpBits
              /\ UNCHANGED exited
         ELSE /\ exited' = res.exit
              /\ UNCHANGED srVars
              /\ UNCHANGED pc

SR_Loop1Iter(E) ==
  /\ exited = "no"
  /\ pc = "sr_loop1"
  /\ Loop1Cond(Frame)
  /\ Iterate(E, TRUE)
  /\ UNCHANGED <<deckVars, distVars>>

SR_Loop1Exit ==
  /\ exited = "no"
  /\ pc = "sr_loop1"
  /\ ~Loop1Cond(Frame)
  /\ SetFrame(Loop1Exit(Frame))
  /\ UNCHANGED <<bufVars, bufGhost, nbits, deckVars, distVars, exited>>

SR_Loop2Iter(E) ==
  /\ exited = "no"
  /\ pc = "sr_loop2"
  /\ Loop2Cond(Frame)
  /\ Iterate(E, FALSE)
  /\ UNCHANGED <<deckVars, distVars>>

SR_Return ==
  /\ exited = "no"
  /\ pc = "sr_loop2"
  /\ ~Loop2Cond(Frame)
  /\ SetFrame(Return(Frame))
  /\ UNCHANGED <<bufVars, bufGhost, nbits, deckVars, distVars, exited>>

(***************************************************************************)
(* init_deck, shuffle_deck and main.                                       *)
(***************************************************************************)
suits == <<"S", "H", "D", "C">>
ranks == <<"A", "2", "3", "4", "5", "6", "7", "8", "9", "T", "J", "Q", "K">>

\* deck[k].suit = suits[k / 13]; deck[k].rank = ranks[k % 13];
init_deck(len) ==
  [k \in 0..(len - 1) |-> [suit |-> suits[(k \div 13) + 1], rank |-> ranks[(k % 13) + 1]]]

\* Mutant: the swap without the temporary.
Swap_NoTemp(d, a, b) == [d EXCEPT ![a] = d[b]]

\* Card temp = deck[a]; deck[a] = deck[b]; deck[b] = temp;
Swap(d, a, b) == [d EXCEPT ![a] = d[b], ![b] = d[a]]

\* The command lines tried: argv[1] absent (the empty sequence), or the text
\* of a number, given by the value strtol converts it to.
ArgChoices == {<<>>} \cup {<<u>> : u \in 0..MaxUplim}

\* main: uint32_t uplim = strtol(argv[1], NULL, 0); init_deck(deck);
\* Without an argument argv[1] is NULL and strtol(NULL, ...) is undefined:
\* the process is killed there (SIGSEGV), or strtol returns some value.
MainStart ==
  /\ exited = "no"
  /\ pc = "start"
  /\ \E argv \in ArgChoices :
       IF Len(argv) = 0
       THEN \/ /\ exited' = "segv"
               /\ UNCHANGED <<uplim, deck, pc>>
            \/ /\ uplim' \in 0..MaxUplim
               /\ deck' = init_deck(n)
               /\ pc' = "main"
               /\ UNCHANGED exited
       ELSE /\ uplim' = argv[1]
            /\ deck' = init_deck(n)
            /\ pc' = "main"
            /\ UNCHANGED exited
  /\ UNCHANGED <<bufVars, bufGhost, srVars, n, i, j, main_i, draws, distVars>>

\* main: for (i = 0; i < uplim; i++) shuffle_deck(deck);  -- the call, which
\* starts shuffle_deck's loop at i = DECK_SIZE - 1.
MainCallShuffle ==
  /\ exited = "no"
  /\ pc = "main"
  /\ main_i < uplim
  /\ i' = n - 1
  /\ draws' = <<>>
  /\ pc' = "shuffle"
  /\ UNCHANGED <<bufVars, bufGhost, srVars, deck, n, j, main_i, uplim, distVars, exited>>

\* main: the loop is over; print and exit(0).
MainExit ==
  /\ exited = "no"
  /\ pc = "main"
  /\ ~(main_i < uplim)
  /\ exited' = "exit0"
  /\ UNCHANGED <<bufVars, bufGhost, srVars, deckVars, distVars, pc>>

\* Mutant: the index is drawn from the whole deck.
ShuffleDraw_WholeDeck ==
  /\ exited = "no"
  /\ pc = "shuffle"
  /\ i > 0
  /\ Call(U32(n))
  /\ UNCHANGED <<bufVars, bufGhost, deckVars, distVars>>

\* shuffle_deck: i > 0 holds and secure_random(i + 1) is called.
ShuffleDraw ==
  /\ exited = "no"
  /\ pc = "shuffle"
  /\ i > 0
  /\ Call(U32(i + 1))
  /\ UNCHANGED <<bufVars, bufGhost, deckVars, distVars>>

\* shuffle_deck: the swap of deck[i] and deck[j] with the value returned, and i--.
ShuffleSwap ==
  /\ exited = "no"
  /\ pc = "sr_ret"
  /\ j' = Val(ret)
  /\ draws' = Append(draws, Val(ret))
  /\ IF Val(ret) \in DOMAIN deck
     THEN /\ deck' = Swap(deck, i, Val(ret))
          /\ i' = i - 1
          /\ pc' = "shuffle"
          /\ UNCHANGED exited
     ELSE /\ exited' = "ub"
          /\ UNCHANGED <<deck, i, pc>>
  /\ UNCHANGED <<bufVars, bufGhost, srVars, n, main_i, uplim, distVars>>

\* shuffle_deck: i > 0 fails, the call returns to main, which does i++.
ShuffleReturn ==
  /\ exited = "no"
  /\ pc = "shuffle"
  /\ ~(i > 0)
  /\ main_i' = main_i + 1
  /\ pc' = "main"
  /\ UNCHANGED <<bufVars, bufGhost, srVars, deck, n, i, j, uplim, draws, distVars, exited>>

(***************************************************************************)
(* Initial states.                                                         *)
(***************************************************************************)
\* The statics of secure_random_bit are zero-initialised.
InitBuf ==
  /\ rand_buf = [k \in {} |-> UZero]
  /\ max_winx = 0
  /\ winx = 0
  /\ bcnt = 0
  /\ blk = [k \in {} |-> UZero]
  /\ served = 0
  /\ lastbit = 0
  /\ lastread = [refill |-> FALSE, open |-> FALSE, rv |-> 0]
  /\ acc = -1

InitFrame ==
  /\ max = UZero
  /\ r = UZero
  /\ rmax = UZero
  /\ defect = UZero
  /\ ret = UZero
  /\ nbits = 0

InitDeck(lens, ups) ==
  /\ n \in lens
  /\ deck = init_deck(n)
  /\ i = 0
  /\ j = 0
  /\ main_i = 0
  /\ uplim \in ups
  /\ draws = <<>>

InitDist ==
  /\ paths = {}
  /\ wt = <<>>
  /\ depth = 0

(***************************************************************************)
(* Spec: the program, main shuffling the deck uplim times.                 *)
(***************************************************************************)
\* Words the source may deliver (least significant bit is consumed first).
\* Every pattern of the LowBits bits consumed first, followed by zeros only or
\* by ones only.
WordChoices ==
  { <<hi * (B16 - 1), hi * (B16 - 2^LowBits) + lo>> : lo \in 0..(2^LowBits - 1), hi \in {0, 1} }

\* Source behaviours tried at the refills of the program and of the sampler:
\* one-word reads of every word of WordChoices, the reads that are too short,
\* and the open that fails.
SmallEnv ==
  [open : {TRUE}, rv : {WORD_BYTES}, data : {<<w>> : w \in WordChoices}]
    \cup [open : {TRUE}, rv : {-1, 0, 3}, data : {<<UOnes>>}]
    \cup {[open |-> FALSE, rv |-> 0, data |-> <<UZero>>]}

\* The process at the entry of main: deck is not initialised yet (no card
\* of it is read before init_deck) and uplim is not assigned yet.
NoCard == [suit |-> "?", rank |-> "?"]

Init ==
  /\ InitBuf
  /\ InitFrame
  /\ n \in 1..MaxDeck
  /\ deck = [k \in 0..(n - 1) |-> NoCard]
  /\ i = 0
  /\ j = 0
  /\ main_i = 0
  /\ uplim = 0
  /\ draws = <<>>
  /\ InitDist
  /\ pc = "start"
  /\ exited = "no"

Next ==
  \/ MainStart
  \/ MainCallShuffle
  \/ MainExit
  \/ ShuffleDraw
  \/ ShuffleSwap
  \/ ShuffleReturn
  \/ SR_Loop1Iter(SmallEnv)
  \/ SR_Loop1Exit
  \/ SR_Loop2Iter(SmallEnv)
  \/ SR_Return

Spec == Init /\ [][Next]_vars

(***************************************************************************)
(* SpecRandom: secure_random called MaxCalls times with arguments of       *)
(* every size, as a caller other than shuffle_deck may do.                 *)
(***************************************************************************)
MaxChoices ==
  { U32(m) : m \in {0, 1, 2, 3, 5, 6, 7, 52, 2^MAX_RAND_BITS - 1, 2^MAX_RAND_BITS,
                    2^MAX_RAND_BITS + 1, 2^30 + 1} }
    \cup { <<B15, 0>>, <<B15, 1>>, UOnes }

\* The arguments of the calls that follow the first one.
LaterChoices == { U32(m) : m \in {0, 1, 3, 6} }

InitRandom ==
  /\ InitBuf
  /\ InitFrame
  /\ InitDeck({1}, {MaxCalls})
  /\ InitDist
  /\ pc = "idle"
  /\ exited = "no"

\* The driver calls secure_random(m).
DriverCall ==
  /\ exited = "no"
  /\ pc = "idle"
  /\ main_i < uplim
  /\ \E m \in (IF main_i = 0 THEN MaxChoices ELSE LaterChoices) : Call(m)
  /\ UNCHANGED <<bufVars, bufGhost, deckVars, distVars>>

\* The driver takes the value returned; the frame of the call is gone.
DriverReturn ==
  /\ exited = "no"
  /\ pc = "sr_ret"
  /\ main_i' = main_i + 1
  /\ pc' = "idle"
  /\ UNCHANGED <<bufVars, bufGhost, srVars, deck, n, i, j, uplim, draws, distVars, exited>>

NextRandom ==
  \/ DriverCall
  \/ DriverReturn
  \/ SR_Loop1Iter(SmallEnv)
  \/ SR_Loop1Exit
  \/ SR_Loop2Iter(SmallEnv)
  \/ SR_Return

SpecRandom == InitRandom /\ [][NextRandom]_vars

(***************************************************************************)
(* SpecBit: secure_random_bit called again and again, the source           *)
(* delivering reads of every size.                                         *)
(***************************************************************************)
BitData ==
  { <<UOnes>>, <<<<43690, 43690>>, <<4660, 22136>>, UZero>>, <<<<0, 1>>, <<B15, 0>>>> }

BitEnv ==
  [open : {TRUE},
   rv : {-1, 0, 1, 3, 4, 5, 7, 8, 11, WORD_BYTES * BUFSZ - 3, WORD_BYTES * BUFSZ},
   data : BitData]
    \cup {[open |-> FALSE, rv |-> 0, data |-> <<UZero>>]}

InitBit ==
  /\ InitBuf
  /\ InitFrame
  /\ InitDeck({1}, {0})
  /\ InitDist
  /\ pc = "bit"
  /\ exited = "no"

BitCall ==
  /\ exited = "no"
  /\ pc = "bit"
  /\ \E env \in EnvsFor(BitEnv) :
       \E res \in {secure_random_bit(BufState, env)} :
         /\ BitEffect(res, env)
         /\ exited' = res.exit
  /\ UNCHANGED <<srVars, deckVars, distVars, pc>>

NextBit == BitCall

SpecBit == InitBit /\ [][NextBit]_vars

(***************************************************************************)
(* SpecDist: the distribution of secure_random(max) over fair bits.  All   *)
(* bit prefixes of one length are followed together; a prefix on which the *)
(* call returns v after d bits adds 2^-d to the weight of v.  Weights are  *)
(* kept as multiples of 2^-DistDepth.                                      *)
(***************************************************************************)
\* The steps of the call that consume no bit.
Settle(f) ==
  LET f1 == IF f.pc = "sr_loop1" /\ ~Loop1Cond(f) THEN Loop1Exit(f) ELSE f
  IN IF f1.pc = "sr_loop2" /\ ~Loop2Cond(f1) THEN Return(f1) ELSE f1

\* The loop iteration that consumes bit.
Pull(f, bit) == IF f.pc = "sr_loop1" THEN Loop1Iter(f, bit) ELSE Loop2Iter(f, bit)

RECURSIVE Feed(_, _)
Feed(f, bits) ==
  IF bits = <<>> \/ f.pc = "sr_ret" THEN f
  ELSE Feed(Settle(Pull(f, Head(bits))), Tail(bits))

\* The frame of secure_random(m) after the source delivered bits.
Run(m, bits) == Feed(Settle(Entry(m)), bits)

\* The prefixes of ps on which the call has returned, each with the value.
Returned(m, ps) ==
  LET runs == {<<p, Run(m, p)>> : p \in ps}
  IN {<<x[1], Val(x[2].ret)>> : x \in {y \in runs : y[2].pc = "sr_ret"}}

\* unit for every prefix of out that returned v.
Tally(m, out, unit) ==
  [v \in 0..(Val(m) - 1) |-> unit * Cardinality({x \in out : x[2] = v})]

InitDistribution ==
  /\ InitBuf
  /\ InitDeck({1}, {0})
  /\ max \in {U32(m) : m \in 1..DistMax}
  /\ r = UZero
  /\ rmax = UZero
  /\ defect = UZero
  /\ ret = UZero
  /\ nbits = 0
  /\ depth = 0
  /\ paths = {<<>>} \ {x[1] : x \in Returned(max, {<<>>})}
  /\ wt = Tally(max, Returned(max, {<<>>}), 2^DistDepth)
  /\ pc = "dist"
  /\ exited = "no"

\* Every prefix still inside the call is extended by a 0 and by a 1.
DistStep ==
  /\ pc = "dist"
  /\ depth < DistDepth
  /\ paths # {}
  /\ \E out \in {Returned(max, {Append(p, b) : p \in paths, b \in {0, 1}})} :
       \E add \in {Tally(max, out, 2^(DistDepth - depth - 1))} :
         /\ paths' = {Append(p, b) : p \in paths, b \in {0, 1}} \ {x[1] : x \in out}
         /\ wt' = [v \in DOMAIN wt |-> wt[v] + add[v]]
  /\ depth' = depth + 1
  /\ UNCHANGED <<bufVars, bufGhost, srVars, deckVars, pc, exited>>

NextDist == DistStep

SpecDist == InitDistribution /\ [][NextDist]_vars

\* The program keeps running until it exits: weak fairness of its steps.
FairSpecRandom == SpecRandom /\ WF_vars(NextRandom)

(***************************************************************************)
(* Properties.                                                             *)
(***************************************************************************)
InSampler == pc \in {"sr_loop1", "sr_loop2", "sr_ret"}

\* The step is an iteration of a loop of secure_random, hence a call of
\* secure_random_bit, or a direct call of secure_random_bit.
BitCallStep ==
  /\ exited = "no"
  /\ \/ pc = "sr_loop1" /\ Loop1Cond(Frame)
     \/ pc = "sr_loop2" /\ Loop2Cond(Frame)
     \/ pc = "bit"
  /\ vars' # vars

\* C1: with fair bits secure_random(max) returns every value of [0, max) with
\* the same probability 1/max.  After any number of bits, the weight a value
\* has gathered is at most 1/max, and with the weight of the prefixes still
\* inside the call it is at least 1/max.
LiveWeight == Cardinality(paths) * 2^(DistDepth - depth)

C1_Uniform ==
  pc = "dist" =>
    \A v \in DOMAIN wt :
      /\ wt[v] * Val(max) <= 2^DistDepth
      /\ (wt[v] + LiveWeight) * Val(max) >= 2^DistDepth

\* C2: whenever secure_random(max) returns, r is outside the biased zone
\* (r < rmax - defect, defect = rmax mod max), rmax / max is at least 1 and
\* the value returned, r / (rmax / max), is in [0, max).
C2_ReturnInRange ==
  pc = "sr_ret" =>
    /\ defect = UMod(rmax, max)
    /\ ULT(r, USub(rmax, defect))
    /\ ULE(defect, rmax)
    /\ ULE(UOne, UDiv(rmax, max))
    /\ ret = UDiv(r, UDiv(rmax, max))
    /\ ULT(ret, max)

\* C2 witness: a call has returned after rejections that went on past the cap.
C2_Witness ==
  /\ pc = "sr_ret"
  /\ max = U32(3)
  /\ rmax = TwoPowMaxRandBits
  /\ nbits > MAX_RAND_BITS + 1

\* C3 as stated: every call of secure_random returns (or the process exits on
\* a source failure), whatever bits the source delivers.  The arguments above
\* 2^31, whose first loop never ends, are left out here: the claim fails
\* without them.
C3_Terminates ==
  [](pc \in {"sr_loop1", "sr_loop2"} /\ ULE(max, <<B15, 0>>)
       => <>(pc = "sr_ret" \/ exited # "no"))

\* C3 as amended: in the rejection loop of secure_random a 0 bit ends the
\* call: after an iteration that pulled a 0 the loop condition is false, below
\* the cap and at the cap.
C3_ZeroBitReturns ==
  [][(pc = "sr_loop2" /\ Loop2Cond(Frame) /\ exited' = "no" /\ lastbit' = 0)
       => (pc' = "sr_loop2" /\ ~Loop2Cond(Frame)')]_vars

\* C3 witness: at the cap, after more than MAX_RAND_BITS bits, a 0 bit was
\* pulled and the loop is about to return.
C3_Witness ==
  /\ pc = "sr_loop2"
  /\ max = U32(3)
  /\ nbits > MAX_RAND_BITS + 1
  /\ lastbit = 0
  /\ ~Loop2Cond(Frame)

\* C4: the deck is a permutation of the original deck after every swap, after
\* every shuffle_deck call and after consecutive calls, and every index a swap
\* uses is in [0, N-1].
IsPermutation(d, orig) ==
  /\ DOMAIN d = DOMAIN orig
  /\ \A k \in DOMAIN orig :
       Cardinality({x \in DOMAIN d : d[x] = orig[k]})
         = Cardinality({x \in DOMAIN orig : orig[x] = orig[k]})

C4_Permutation ==
  /\ pc # "start" => IsPermutation(deck, init_deck(n))
  /\ exited # "ub"
  /\ i \in 0..(n - 1)
  /\ j \in 0..(n - 1)
  /\ (pc = "sr_ret" => i \in 1..(n - 1) /\ ULT(ret, U32(i + 1)))

\* C4 witness: main has shuffled twice and exited, the deck being rearranged.
C4_Witness ==
  /\ exited = "exit0"
  /\ uplim = 2
  /\ main_i = 2
  /\ n = MaxDeck
  /\ deck # init_deck(n)

\* C5: the draws (j_{N-1}, ..., j_1) of a shuffle_deck call, j_i in [0, i],
\* determine the arrangement one to one: the draws are recovered from the
\* final deck, every permutation is produced by the draws recovered from it,
\* and there are exactly N-1 draws and swaps, for i = N-1 down to 1; so a
\* sampler that is exact makes every permutation equally likely.
Position(d, c) ==
  IF \E x \in DOMAIN d : d[x] = c THEN CHOOSE x \in DOMAIN d : d[x] = c ELSE -1

RECURSIVE Recover(_, _, _)
Recover(cur, final, k) ==
  IF k <= 0 THEN <<>>
  ELSE LET jj == Position([x \in 0..k |-> cur[x]], final[k])
       IN IF jj = -1 THEN <<-1>>
          ELSE <<jj>> \o Recover(Swap(cur, k, jj), final, k - 1)

RECURSIVE ApplyDraws(_, _, _)
ApplyDraws(d, k, ds) ==
  IF ds = <<>> THEN d ELSE ApplyDraws(Swap(d, k, Head(ds)), k - 1, Tail(ds))

AllPermutations(orig) ==
  {d \in [DOMAIN orig -> {orig[k] : k \in DOMAIN orig}] : IsPermutation(d, orig)}

C5_DrawsBijective ==
  /\ pc = "shuffle" => Len(draws) = (n - 1) - i
  /\ \A k \in 1..Len(draws) : draws[k] \in 0..(n - k)
  /\ (pc = "main" /\ main_i = 1) =>
       /\ Len(draws) = n - 1
       /\ ApplyDraws(init_deck(n), n - 1, draws) = deck
       /\ Recover(init_deck(n), deck, n - 1) = draws
       /\ \A d \in AllPermutations(init_deck(n)) :
            ApplyDraws(init_deck(n), n - 1, Recover(init_deck(n), d, n - 1)) = d

\* C5 witness: a shuffle of four cards is over and no card is where it was.
C5_Witness ==
  /\ pc = "main"
  /\ main_i = 1
  /\ n = 4
  /\ Len(draws) = 3
  /\ \A k \in DOMAIN deck : deck[k] # init_deck(n)[k]

\* C6: the bits returned are the bits of the blocks read, in strict order (bit
\* 0 of word 0 first), each bit of each valid word once; a read happens on the
\* first call and then exactly on the call that follows the last bit of the
\* last valid word, floor(rv/4) words being valid, and it restarts at word 0,
\* bit 0.
ServedInOrder ==
  /\ DOMAIN blk = 0..(max_winx - 1)
  /\ served <= WORD_BITS * max_winx
  /\ served > 0 =>
       /\ lastbit = UBit(blk[(served - 1) \div WORD_BITS], (served - 1) % WORD_BITS)
       /\ winx = served \div WORD_BITS
       /\ bcnt = served % WORD_BITS

C6_StrictOrder ==
  [][BitCallStep =>
       /\ ServedInOrder'
       /\ lastread'.refill <=> (served = WORD_BITS * max_winx)
       /\ (exited' = "no" /\ lastread'.refill) =>
            /\ served' = 1
            /\ max_winx' = lastread'.rv \div WORD_BYTES
       /\ (exited' = "no" /\ ~lastread'.refill) =>
            /\ served' = served + 1
            /\ UNCHANGED <<max_winx, blk>>]_vars

\* C6 witness: a block of two valid words and a partial third was consumed to
\* its last bit, the next call read a new block, and the first bit of its
\* second word has been returned.
C6_Witness ==
  /\ served = WORD_BITS + 1
  /\ winx = 1
  /\ bcnt = 1
  /\ max_winx = 2
  /\ 2 \in DOMAIN rand_buf
  /\ exited = "no"

\* C7: when a refill is needed and the source cannot be opened or the read
\* returns fewer bytes than one word, the process ends in that call of
\* secure_random_bit: no bit is returned, and nothing happens afterwards.
C7_FatalOnShortRead ==
  [][/\ exited # "no" => UNCHANGED vars
     /\ (BitCallStep /\ NeedRefill(winx, max_winx)) =>
          /\ lastread'.refill
          /\ (lastread'.open /\ lastread'.rv >= WORD_BYTES) <=> (exited' = "no")
          /\ (exited' # "no") =>
               /\ exited' = IF lastread'.open THEN "read" ELSE "open"
               /\ UNCHANGED <<max_winx, winx, bcnt, lastbit, served, blk>>
               /\ UNCHANGED <<srVars, deckVars, pc>>]_vars

\* C7 witness: the program ended on a read of three bytes in the rejection
\* loop of the first draw of the second shuffle, the three bytes being in
\* rand_buf.
C7_Witness ==
  /\ exited = "read"
  /\ lastread.rv = 3
  /\ 0 \in DOMAIN rand_buf
  /\ pc = "sr_loop2"
  /\ main_i = 1
  /\ deck # init_deck(n)
  /\ served = WORD_BITS

\* C8: secure_random(1) returns 0 without calling secure_random_bit: the
\* entropy buffer is unchanged and no read happens, in every buffer state.
C8_MaxOneNoBits ==
  [][(max' = U32(1) /\ InSampler') =>
       /\ UNCHANGED <<bufVars, bufGhost>>
       /\ nbits' = 0
       /\ exited' = "no"
       /\ ~(pc' = "sr_loop1" /\ Loop1Cond(Frame)')
       /\ ~(pc' = "sr_loop2" /\ Loop2Cond(Frame)')
       /\ (pc' = "sr_ret" => ret' = UZero)]_vars

\* C8 witness: secure_random(1) has returned 0 while the buffer is in its
\* initial empty state, where any bit would have needed a read.
C8_Witness ==
  /\ pc = "sr_ret"
  /\ max = U32(1)
  /\ ret = UZero
  /\ winx = max_winx
  /\ max_winx = 0
  /\ ~lastread.refill

\* C9: in the first loop of secure_random rmax is 2^k after k bits and never
\* wraps to 0, r < rmax holds with the k-th bit drawn at bit k of r, and the
\* loop goes on only while the power of two below is < max, so that it ends
\* with the smallest power of two >= max after ceil(log2(max)) bits.
C9_FirstLoop ==
  pc = "sr_loop1" =>
    /\ rmax # UZero
    /\ nbits < WORD_BITS
    /\ rmax = USetBit(UZero, nbits)
    /\ ULT(r, rmax)
    /\ nbits > 0 => (UBit(r, nbits - 1) = lastbit /\ ULT(UShr1(rmax), max))

\* C10: every access rand_buf[winx] has winx < max_winx <= BUFSZ, and between
\* calls 0 <= winx <= max_winx, 1 <= max_winx <= BUFSZ after the first
\* refill, and 0 <= bcnt < 32.
C10_BufferIndices ==
  /\ exited # "ub"
  /\ 0 <= winx
  /\ winx <= max_winx
  /\ max_winx <= BUFSZ
  /\ 0 <= bcnt
  /\ bcnt < WORD_BITS
  /\ served > 0 => 1 <= max_winx
  /\ acc # -1 => (0 <= acc /\ acc < max_winx)
  /\ DOMAIN rand_buf \subseteq 0..(BUFSZ - 1)

\* C10 witness: a read of a size that is no multiple of 4 gave one valid word,
\* which is consumed to its last bit: winx = max_winx.
C10_Witness ==
  /\ max_winx = 1
  /\ winx = 1
  /\ bcnt = 0
  /\ acc = 0
  /\ served = WORD_BITS
  /\ 1 \in DOMAIN rand_buf

====
